---- MODULE Spec2Model ----
(***************************************************************************)
(* Model of the author-inherent pallet                                     *)
(* (pallets/author-inherent/src/lib.rs): the per-block Author storage      *)
(* slot, the set_author dispatchable, the on_initialize hook, the          *)
(* FindAuthor query and the ProvideInherent adapter.                       *)
(***************************************************************************)
EXTENDS Integers, Sequences, FiniteSets, TLC

(***************************************************************************)
(* Bounds of the model.                                                    *)
(***************************************************************************)
NumAuthors == 2
MaxBlocks == 2
MaxClaims == 2

(***************************************************************************)
(* Program constants.                                                      *)
(***************************************************************************)
\* size in bytes of the SCALE encoding of AuthorId = u64
U64Bytes == 8
\* [b'a', b'u', b't', b'h']
ENGINE_ID == <<97, 117, 116, 104>>
\* *b"author__"
INHERENT_IDENTIFIER == <<97, 117, 116, 104, 111, 114, 95, 95>>
\* an identifier of some other pallet's inherent
OTHER_IDENTIFIER == <<116, 105, 109, 115, 116, 97, 112, 48>>

(***************************************************************************)
(* Data types.                                                             *)
(***************************************************************************)
AuthorId == 1..NumAuthors

\* Option<T>: None is the empty tuple, Some(x) the one-element tuple
None == <<>>
Some(x) == <<x>>

\* frame_system::RawOrigin
RawOrigin == {"None", "Root", "Signed"}

\* values returned by the operations; one shape for all of them
ROk == [kind |-> "Ok", err |-> "", author |-> 0]
RErr(e) == [kind |-> "Err", err |-> e, author |-> 0]
RPanic(msg) == [kind |-> "Panic", err |-> msg, author |-> 0]
RNone == [kind |-> "None", err |-> "", author |-> 0]
RSome(a) == [kind |-> "Some", err |-> "", author |-> a]
RTrue == [kind |-> "True", err |-> "", author |-> 0]
ROkSomeErr(e) == [kind |-> "OkSomeErr", err |-> e, author |-> 0]

\* the bool an operation returns about the error message e
RBool(b, e) == [kind |-> IF b THEN "True" ELSE "False", err |-> e, author |-> 0]

\* the value an Option<AuthorId> has as a returned value
ROption(opt) == IF opt = None THEN RNone ELSE RSome(opt[1])

(***************************************************************************)
(* SCALE codec of AuthorId = u64: eight bytes, little endian.  Decoding    *)
(* reads the first eight bytes of the input and fails on a shorter input.  *)
(***************************************************************************)
RECURSIVE Shr8(_, _)
Shr8(x, k) == IF k = 0 THEN x ELSE Shr8(x \div 256, k - 1)

Encode_one_byte(a) == <<a % 256>>

Encode(a) == [i \in 1..U64Bytes |-> Shr8(a, i - 1) % 256]

RECURSIVE FromLE(_)
FromLE(bytes) == IF bytes = <<>> THEN 0 ELSE Head(bytes) + 256 * FromLE(Tail(bytes))

Decode(bytes) ==
    IF Len(bytes) < U64Bytes
    THEN [ok |-> FALSE, val |-> 0]
    ELSE [ok |-> TRUE, val |-> FromLE(SubSeq(bytes, 1, U64Bytes))]

\* DigestItem::Consensus(engine, data)
Consensus(engine, data) == [kind |-> "Consensus", engine |-> engine, data |-> data]

(***************************************************************************)
(* State.                                                                  *)
(***************************************************************************)
VARIABLES
    Author,          \* storage Author: Option<T::AuthorId>
    Digest,          \* the log of the current block (frame_system deposit_log)
    noted,           \* the calls EventHandler::note_author has received
    block_number,    \* frame_system block number
    effects,         \* the writes the last call made, in the order made
    call,            \* the last call made
    result,          \* what the last call returned
    pre,             \* the state the last call started from
    everReset,       \* on_initialize has run at least once
    claimsInRound,   \* successful set_author calls since the last on_initialize
    lastRoundAuthor, \* the slot's value when the last on_initialize ran
    admitted,        \* the answers <<final, preliminary>> of the policies for the
                     \* slot's author when the slot was filled; None while empty
    roundBase,       \* Some(number of notifications at the block's start) in a
                     \* block that began with a fresh log and on_initialize
    leaked,          \* the slot's value at the start of a block that began
                     \* without on_initialize; None in any other block
    inherent_data    \* the InherentData the outer node last handed to a provider

vars == <<Author, Digest, noted, block_number, effects, call, result, pre, everReset,
          claimsInRound, lastRoundAuthor, admitted, roundBase, leaked, inherent_data>>

\* the part of the state the pallet's functions read and write
Store == [Author |-> Author, Digest |-> Digest, noted |-> noted, effects |-> <<>>]

Snapshot == [Author |-> Author, Digest |-> Digest, noted |-> noted,
             block_number |-> block_number, everReset |-> everReset,
             claimsInRound |-> claimsInRound, lastRoundAuthor |-> lastRoundAuthor]

\* a call, its arguments, and what the two policies answer for its author
\* while it runs; the arguments a call does not have are left empty
NoData == {}
Call(op, origin, author, full, prelim, data, digests, n) ==
    [author |-> author, data |-> data, op |-> op, origin |-> origin,
     full |-> full, prelim |-> prelim, digests |-> digests, n |-> n]

(***************************************************************************)
(* Storage and environment primitives.                                     *)
(***************************************************************************)
\* <Author<T>>::kill()
AuthorKill_noop(st) == [st EXCEPT !.effects = Append(@, "kill")]

AuthorKill(st) == [st EXCEPT !.Author = None, !.effects = Append(@, "kill")]

\* <Author<T>>::get()
AuthorGet(st) == st.Author

\* Author::<T>::put(&author)
AuthorPut(st, author) ==
    [st EXCEPT !.Author = Some(author), !.effects = Append(@, "put")]

\* a log that records the item twice
deposit_log_twice(st, item) ==
    [st EXCEPT !.Digest = Append(Append(@, item), item),
               !.effects = Append(@, "deposit_log")]

\* frame_system::Pallet::<T>::deposit_log(item)
deposit_log(st, item) ==
    [st EXCEPT !.Digest = Append(@, item), !.effects = Append(@, "deposit_log")]

\* T::EventHandler::note_author(author); the sink sees the state at that moment
note_author(st, author) ==
    [st EXCEPT !.noted = Append(@, [author |-> author, slot |-> st.Author,
                                    log |-> st.Digest]),
               !.effects = Append(@, "note_author")]

\* ensure_none(origin)
ensure_none_or_root(origin) == origin \in {"None", "Root"}

ensure_none(origin) == origin = "None"

\* CanAuthor::can_author(&author) of a policy whose answer for author is answer
can_author(answer, author) == answer

(***************************************************************************)
(* fn on_initialize() -> Weight                                            *)
(***************************************************************************)
\* on_initialize handing the sink the author it clears
on_initialize_noting(st) ==
    IF AuthorGet(st) = None
    THEN AuthorKill(st)
    ELSE note_author(AuthorKill(st), AuthorGet(st)[1])

on_initialize(st) == AuthorKill(st)

(***************************************************************************)
(* fn set_author(origin, author: T::AuthorId)                              *)
(* full and prelim are the answers T::FullCanAuthor and                    *)
(* T::PreliminaryCanAuthor give for author during the call.                *)
(***************************************************************************)
\* set_author without the check of the slot
set_author_unchecked(st, origin, author, full, prelim) ==
    IF ~ensure_none(origin)
    THEN [result |-> RErr("BadOrigin"), st |-> st]
    ELSE IF ~can_author(full, author)
    THEN [result |-> RErr("CannotBeAuthor"), st |-> st]
    ELSE LET s1 == AuthorPut(st, author)
             s2 == deposit_log(s1, Consensus(ENGINE_ID, Encode(author)))
             s3 == note_author(s2, author)
         IN  [result |-> ROk, st |-> s3]

\* set_author asking T::PreliminaryCanAuthor instead of T::FullCanAuthor
set_author_prelim(st, origin, author, full, prelim) ==
    IF ~ensure_none(origin)
    THEN [result |-> RErr("BadOrigin"), st |-> st]
    ELSE IF ~(AuthorGet(st) = None)
    THEN [result |-> RErr("AuthorAlreadySet"), st |-> st]
    ELSE IF ~can_author(prelim, author)
    THEN [result |-> RErr("CannotBeAuthor"), st |-> st]
    ELSE LET s1 == AuthorPut(st, author)
             s2 == deposit_log(s1, Consensus(ENGINE_ID, Encode(author)))
             s3 == note_author(s2, author)
         IN  [result |-> ROk, st |-> s3]

\* set_author writing the slot before it asks the policy
set_author_put_first(st, origin, author, full, prelim) ==
    IF ~ensure_none(origin)
    THEN [result |-> RErr("BadOrigin"), st |-> st]
    ELSE IF ~(AuthorGet(st) = None)
    THEN [result |-> RErr("AuthorAlreadySet"), st |-> st]
    ELSE LET s1 == AuthorPut(st, author) IN
         IF ~can_author(full, author)
         THEN [result |-> RErr("CannotBeAuthor"), st |-> s1]
         ELSE LET s2 == deposit_log(s1, Consensus(ENGINE_ID, Encode(author)))
                  s3 == note_author(s2, author)
              IN  [result |-> ROk, st |-> s3]

\* set_author notifying the sink before it appends to the log
set_author_note_first(st, origin, author, full, prelim) ==
    IF ~ensure_none(origin)
    THEN [result |-> RErr("BadOrigin"), st |-> st]
    ELSE IF ~(AuthorGet(st) = None)
    THEN [result |-> RErr("AuthorAlreadySet"), st |-> st]
    ELSE IF ~can_author(full, author)
    THEN [result |-> RErr("CannotBeAuthor"), st |-> st]
    ELSE LET s1 == AuthorPut(st, author)
             s2 == note_author(s1, author)
             s3 == deposit_log(s2, Consensus(ENGINE_ID, Encode(author)))
         IN  [result |-> ROk, st |-> s3]

\* set_author appending to the log before it checks the slot
set_author_log_first(st, origin, author, full, prelim) ==
    IF ~ensure_none(origin)
    THEN [result |-> RErr("BadOrigin"), st |-> st]
    ELSE LET s0 == deposit_log(st, Consensus(ENGINE_ID, Encode(author))) IN
         IF ~(AuthorGet(st) = None)
         THEN [result |-> RErr("AuthorAlreadySet"), st |-> s0]
         ELSE IF ~can_author(full, author)
         THEN [result |-> RErr("CannotBeAuthor"), st |-> s0]
         ELSE LET s1 == AuthorPut(s0, author)
                  s3 == note_author(s1, author)
              IN  [result |-> ROk, st |-> s3]

\* set_author asking the policy before it checks the slot
set_author_policy_first(st, origin, author, full, prelim) ==
    IF ~ensure_none(origin)
    THEN [result |-> RErr("BadOrigin"), st |-> st]
    ELSE IF ~can_author(full, author)
    THEN [result |-> RErr("CannotBeAuthor"), st |-> st]
    ELSE IF ~(AuthorGet(st) = None)
    THEN [result |-> RErr("AuthorAlreadySet"), st |-> st]
    ELSE LET s1 == AuthorPut(st, author)
             s2 == deposit_log(s1, Consensus(ENGINE_ID, Encode(author)))
             s3 == note_author(s2, author)
         IN  [result |-> ROk, st |-> s3]

\* set_author accepting an author either policy accepts
set_author_either(st, origin, author, full, prelim) ==
    IF ~ensure_none(origin)
    THEN [result |-> RErr("BadOrigin"), st |-> st]
    ELSE IF ~(AuthorGet(st) = None)
    THEN [result |-> RErr("AuthorAlreadySet"), st |-> st]
    ELSE IF ~(can_author(full, author) \/ can_author(prelim, author))
    THEN [result |-> RErr("CannotBeAuthor"), st |-> st]
    ELSE LET s1 == AuthorPut(st, author)
             s2 == deposit_log(s1, Consensus(ENGINE_ID, Encode(author)))
             s3 == note_author(s2, author)
         IN  [result |-> ROk, st |-> s3]

\* set_author asserting that the slot is empty instead of returning an error
set_author_asserting(st, origin, author, full, prelim) ==
    IF ~ensure_none(origin)
    THEN [result |-> RErr("BadOrigin"), st |-> st]
    ELSE IF ~(AuthorGet(st) = None)
    THEN [result |-> RPanic("Author already set in block."), st |-> st]
    ELSE IF ~can_author(full, author)
    THEN [result |-> RErr("CannotBeAuthor"), st |-> st]
    ELSE LET s1 == AuthorPut(st, author)
             s2 == deposit_log(s1, Consensus(ENGINE_ID, Encode(author)))
             s3 == note_author(s2, author)
         IN  [result |-> ROk, st |-> s3]

set_author(st, origin, author, full, prelim) ==
    IF ~ensure_none(origin)
    THEN [result |-> RErr("BadOrigin"), st |-> st]
    ELSE IF ~(AuthorGet(st) = None)
    THEN [result |-> RErr("AuthorAlreadySet"), st |-> st]
    ELSE IF ~can_author(full, author)
    THEN [result |-> RErr("CannotBeAuthor"), st |-> st]
    ELSE LET s1 == AuthorPut(st, author)
             s2 == deposit_log(s1, Consensus(ENGINE_ID, Encode(author)))
             s3 == note_author(s2, author)
         IN  [result |-> ROk, st |-> s3]

(***************************************************************************)
(* fn find_author(_digests) -> Option<T::AuthorId>                         *)
(***************************************************************************)
\* find_author reading the slot with take() instead of get()
find_author_take(st, digests) ==
    [result |-> ROption(AuthorGet(st)), st |-> [st EXCEPT !.Author = None]]

\* find_author reading the author from the first digest it is given
find_author_from_digests(st, digests) ==
    [result |-> IF digests = <<>> THEN ROption(AuthorGet(st))
                ELSE RSome(Decode(digests[1][2]).val),
     st |-> st]

find_author(st, digests) == [result |-> ROption(AuthorGet(st)), st |-> st]

(***************************************************************************)
(* The start of a block in the runtime: frame_system starts the block's    *)
(* log afresh, then the pallets' on_initialize hooks run.                  *)
(***************************************************************************)
system_initialize(st) == [st EXCEPT !.Digest = <<>>]

initialize_block(st) == on_initialize(system_initialize(st))

(***************************************************************************)
(* tests::roll_to(n): on_initialize once per block, up to block n.  The    *)
(* hooks of frame_system it calls around it write nothing of this state.   *)
(***************************************************************************)
RECURSIVE roll_to(_, _, _)
roll_to(st, bn, n) ==
    IF bn < n
    THEN roll_to(on_initialize(st), bn + 1, n)
    ELSE [block_number |-> bn, st |-> st]

(***************************************************************************)
(* InherentData: a set of <<identifier, bytes>> pairs, one per identifier. *)
(***************************************************************************)
\* data.get_data::<InherentType<T>>(&identifier): Result<Option<AuthorId>, Error>
get_data(data, identifier) ==
    IF \A e \in data : e[1] # identifier
    THEN [kind |-> "None", val |-> 0]
    ELSE LET bytes == (CHOOSE e \in data : e[1] = identifier)[2]
             dec == Decode(bytes)
         IN  IF dec.ok THEN [kind |-> "Some", val |-> dec.val]
                       ELSE [kind |-> "Err", val |-> 0]

\* a provider that files the author under another identifier
provide_inherent_data_other_id(author, data) ==
    IF \E e \in data : e[1] = OTHER_IDENTIFIER
    THEN [data |-> data, result |-> RErr("Inherent with same identifier already exists!")]
    ELSE [data |-> data \cup {<<OTHER_IDENTIFIER, Encode(author)>>}, result |-> ROk]

\* InherentDataProvider(author).provide_inherent_data(&mut data):
\* data.put_data(INHERENT_IDENTIFIER, &author) encodes the author into a vacant
\* entry and refuses an occupied one
provide_inherent_data(author, data) ==
    IF \E e \in data : e[1] = INHERENT_IDENTIFIER
    THEN [data |-> data, result |-> RErr("Inherent with same identifier already exists!")]
    ELSE [data |-> data \cup {<<INHERENT_IDENTIFIER, Encode(author)>>}, result |-> ROk]

(***************************************************************************)
(* enum InherentError { Other(RuntimeString) } and its IsFatalError        *)
(***************************************************************************)
Other(msg) == <<"Other", msg>>

\* is_fatal_error holding only of the error of a missing inherent
is_fatal_error_if_required(error) == error[2] = "AuthorInherentRequired"

is_fatal_error(error) == CASE error[1] = "Other" -> TRUE

(***************************************************************************)
(* fn is_inherent_required(_: &InherentData)                               *)
(***************************************************************************)
\* is_inherent_required answering Ok(None) for a bag without an author
is_inherent_required_if_present(data) ==
    IF \E e \in data : e[1] = INHERENT_IDENTIFIER
    THEN ROkSomeErr("AuthorInherentRequired")
    ELSE [kind |-> "OkNone", err |-> "", author |-> 0]

is_inherent_required(data) == ROkSomeErr("AuthorInherentRequired")

(***************************************************************************)
(* fn create_inherent(data: &InherentData) -> Option<Self::Call>           *)
(* RSome(a) stands for Some(Call::set_author(a)).                          *)
(***************************************************************************)
\* create_inherent treating an undecodable payload as an absent one
create_inherent_ok_flatten(data) ==
    LET author_raw == get_data(data, INHERENT_IDENTIFIER) IN
    IF author_raw.kind = "Some" THEN RSome(author_raw.val) ELSE RNone

create_inherent(data) ==
    LET author_raw == get_data(data, INHERENT_IDENTIFIER) IN
    IF author_raw.kind = "Err"
    THEN RPanic("Gets and decodes authorship inherent data")
    ELSE IF author_raw.kind = "None"
    THEN RNone
    ELSE RSome(author_raw.val)

(***************************************************************************)
(* fn check_inherent(call: &Self::Call, _data: &InherentData)              *)
(* The only call of the pallet is set_author(claimed_author).              *)
(***************************************************************************)
\* check_inherent asking T::FullCanAuthor instead of T::PreliminaryCanAuthor
check_inherent_full(claimed_author, data, full, prelim) ==
    IF ~can_author(full, claimed_author)
    THEN RErr("Cannot Be Author")
    ELSE ROk

check_inherent(claimed_author, data, full, prelim) ==
    IF ~can_author(prelim, claimed_author)
    THEN RErr("Cannot Be Author")
    ELSE ROk

(***************************************************************************)
(* fn is_inherent(call: &Self::Call) -> bool                               *)
(***************************************************************************)
is_inherent(claimed_author) == RTrue

(***************************************************************************)
(* Inputs.                                                                 *)
(***************************************************************************)
\* payloads found under an identifier: encoded authors, too short, with a tail
Payloads ==
    {Encode(a) : a \in AuthorId}
        \cup {<<>>, SubSeq(Encode(1), 1, U64Bytes - 1), Encode(1) \o <<7>>}

InherentBags ==
    {NoData, {<<OTHER_IDENTIFIER, <<42>> >>}}
        \cup {{<<INHERENT_IDENTIFIER, p>>} : p \in Payloads}
        \cup {{<<INHERENT_IDENTIFIER, Encode(1)>>, <<OTHER_IDENTIFIER, <<42>> >>}}

\* the InherentData a provider is handed: empty, holding another inherent's
\* entry, or already holding an author
ProviderBags ==
    {NoData, {<<OTHER_IDENTIFIER, <<42>> >>}, {<<INHERENT_IDENTIFIER, Encode(1)>>}}

\* messages an InherentError::Other carries: the pallet's two and another one
ErrorMessages == {"AuthorInherentRequired", "Cannot Be Author", "unknown"}

\* digests handed to find_author: (ConsensusEngineId, bytes) pairs
DigestInputs ==
    {<<>>} \cup {<< <<ENGINE_ID, Encode(a)>> >> : a \in AuthorId}

(***************************************************************************)
(* Initial state: empty storage (new_test_ext).                            *)
(***************************************************************************)
Init ==
    /\ Author = None
    /\ Digest = <<>>
    /\ noted = <<>>
    /\ block_number = 0
    /\ effects = <<>>
    /\ call = Call("init", "None", 0, TRUE, TRUE, NoData, <<>>, 0)
    /\ result = ROk
    /\ everReset = FALSE
    /\ claimsInRound = 0
    /\ lastRoundAuthor = None
    /\ admitted = None
    /\ roundBase = None
    /\ leaked = None
    /\ inherent_data = NoData
    /\ pre = [Author |-> None, Digest |-> <<>>, noted |-> <<>>,
              block_number |-> 0, everReset |-> FALSE, claimsInRound |-> 0,
              lastRoundAuthor |-> None]

\* a call that went from Store to st, returning r
Returns(c, st, r) ==
    /\ Author' = st.Author
    /\ Digest' = st.Digest
    /\ noted' = st.noted
    /\ effects' = st.effects
    /\ call' = c
    /\ result' = r
    /\ pre' = Snapshot
    /\ admitted' = IF st.Author = Author THEN admitted
                   ELSE IF st.Author = None THEN None
                   ELSE <<c.full, c.prelim>>
    /\ UNCHANGED inherent_data

OnInitialize ==
    /\ Returns(Call("on_initialize", "None", 0, TRUE, TRUE, NoData, <<>>, 0), on_initialize(Store), ROk)
    /\ everReset' = TRUE
    /\ claimsInRound' = 0
    /\ lastRoundAuthor' = Author
    /\ roundBase' = None
    /\ leaked' = None
    /\ UNCHANGED block_number

\* the environment starts a block and runs the hook
InitializeBlock ==
    /\ block_number < MaxBlocks
    /\ Returns(Call("initialize_block", "None", 0, TRUE, TRUE, NoData, <<>>, 0),
               initialize_block(Store), ROk)
    /\ block_number' = block_number + 1
    /\ everReset' = TRUE
    /\ claimsInRound' = 0
    /\ lastRoundAuthor' = Author
    /\ roundBase' = Some(Len(noted))
    /\ leaked' = None

\* the environment starts a block and does not run the hook
InitializeBlockNoHook ==
    /\ block_number < MaxBlocks
    /\ Returns(Call("initialize_block_no_hook", "None", 0, TRUE, TRUE, NoData, <<>>, 0),
               system_initialize(Store), ROk)
    /\ block_number' = block_number + 1
    /\ roundBase' = None
    /\ leaked' = Author
    /\ UNCHANGED <<everReset, claimsInRound, lastRoundAuthor>>

SetAuthor ==
    \E origin \in RawOrigin, author \in AuthorId, full \in BOOLEAN, prelim \in BOOLEAN :
        LET out == set_author(Store, origin, author, full, prelim) IN
        /\ Len(out.st.noted) <= MaxClaims
        /\ Returns(Call("set_author", origin, author, full, prelim, NoData, <<>>, 0),
                   out.st, out.result)
        /\ claimsInRound' = IF out.result = ROk THEN claimsInRound + 1 ELSE claimsInRound
        /\ UNCHANGED <<block_number, everReset, lastRoundAuthor, roundBase, leaked>>

FindAuthor ==
    \E digests \in DigestInputs :
        LET out == find_author(Store, digests) IN
        /\ Returns(Call("find_author", "None", 0, TRUE, TRUE, NoData, digests, 0),
                   out.st, out.result)
        /\ UNCHANGED <<block_number, everReset, claimsInRound, lastRoundAuthor,
                       roundBase, leaked>>

RollTo ==
    \E n \in 0..MaxBlocks :
        LET out == roll_to(Store, block_number, n)
            ran == n - block_number
        IN
        /\ Returns(Call("roll_to", "None", 0, TRUE, TRUE, NoData, <<>>, n), out.st, ROk)
        /\ block_number' = out.block_number
        /\ everReset' = (everReset \/ ran >= 1)
        /\ claimsInRound' = IF ran >= 1 THEN 0 ELSE claimsInRound
        /\ lastRoundAuthor' = IF ran >= 2 THEN out.st.Author
                              ELSE IF ran = 1 THEN Author ELSE lastRoundAuthor
        /\ roundBase' = IF ran >= 1 THEN None ELSE roundBase
        /\ leaked' = IF ran >= 1 THEN None ELSE leaked

\* calls that read and write nothing of the state
Pure(c, r) ==
    /\ Returns(c, Store, r)
    /\ UNCHANGED <<block_number, everReset, claimsInRound, lastRoundAuthor,
                   roundBase, leaked>>

ProvideInherentData ==
    \E author \in AuthorId, data \in ProviderBags :
        LET out == provide_inherent_data(author, data) IN
        /\ inherent_data' = out.data
        /\ call' = Call("provide_inherent_data", "None", author, TRUE, TRUE, data, <<>>, 0)
        /\ result' = out.result
        /\ pre' = Snapshot
        /\ effects' = <<>>
        /\ UNCHANGED <<Author, Digest, noted, admitted, block_number, everReset,
                       claimsInRound, lastRoundAuthor, roundBase, leaked>>

IsInherentRequired ==
    \E data \in InherentBags :
        Pure(Call("is_inherent_required", "None", 0, TRUE, TRUE, data, <<>>, 0),
             is_inherent_required(data))

CreateInherent ==
    \E data \in InherentBags :
        Pure(Call("create_inherent", "None", 0, TRUE, TRUE, data, <<>>, 0),
             create_inherent(data))

CheckInherent ==
    \E claimed_author \in AuthorId, full \in BOOLEAN, prelim \in BOOLEAN,
       data \in {NoData, {<<INHERENT_IDENTIFIER, Encode(1)>>}} :
        Pure(Call("check_inherent", "None", claimed_author, full, prelim, data, <<>>, 0),
             check_inherent(claimed_author, data, full, prelim))

IsInherent ==
    \E claimed_author \in AuthorId :
        Pure(Call("is_inherent", "None", claimed_author, TRUE, TRUE, NoData, <<>>, 0),
             is_inherent(claimed_author))

IsFatalError ==
    \E msg \in ErrorMessages :
        Pure(Call("is_fatal_error", "None", 0, TRUE, TRUE, NoData, <<>>, 0),
             RBool(is_fatal_error(Other(msg)), msg))

\* the calls of the pallet and of its tests
Next ==
    \/ OnInitialize
    \/ SetAuthor
    \/ FindAuthor
    \/ RollTo
    \/ IsInherentRequired
    \/ CreateInherent
    \/ CheckInherent
    \/ IsInherent
    \/ IsFatalError

Spec == Init /\ [][Next]_vars

\* the slot and the log over the blocks the environment starts
NextBlocks ==
    \/ OnInitialize
    \/ InitializeBlock
    \/ InitializeBlockNoHook
    \/ SetAuthor
    \/ FindAuthor
    \/ RollTo

SpecBlocks == Init /\ [][NextBlocks]_vars

\* the outer node's provider and the runtime's side of the inherent
NextInherent ==
    \/ ProvideInherentData
    \/ IsInherentRequired
    \/ CreateInherent
    \/ CheckInherent
    \/ IsInherent
    \/ IsFatalError

SpecInherent == Init /\ [][NextInherent]_vars

(***************************************************************************)
(* Properties.                                                             *)
(***************************************************************************)
\* the last call was set_author from the none origin
PrivilegedClaim == call.op = "set_author" /\ call.origin = "None"

\* the last call left the slot, the log and the sink as they were
NothingWritten == Author = pre.Author /\ Digest = pre.Digest /\ noted = pre.noted

\* C1: once a claim has succeeded in a round, every further set_author from
\* the none origin before the next on_initialize returns AuthorAlreadySet,
\* for every author and every answer of the final policy, and leaves the
\* slot, the log and the sink's notifications as they were.
C1_SecondClaimFails ==
    (PrivilegedClaim /\ pre.claimsInRound >= 1)
        => (result = RErr("AuthorAlreadySet") /\ NothingWritten)

\* a second claim, of another author than the slot's, that the policy rejects
C1_Witness ==
    /\ PrivilegedClaim /\ pre.claimsInRound = 1
    /\ Some(call.author) # pre.Author /\ ~call.full
    /\ result = RErr("AuthorAlreadySet")

\* a second claim of the slot's own author, which the policy accepts
C1_WitnessSame ==
    /\ PrivilegedClaim /\ pre.claimsInRound = 1
    /\ Some(call.author) = pre.Author /\ call.full
    /\ result = RErr("AuthorAlreadySet")

\* C2: a step changes the Author slot only from None to Some(author), by a
\* set_author that returns Ok, or to None, by on_initialize (alone or inside
\* roll_to or the start of a block); no step takes Some(a) to another Some, and no other operation
\* writes the slot.
C2_SlotWriteOnce ==
    [][Author' # Author =>
        \/ /\ Author = None
           /\ call'.op = "set_author" /\ result' = ROk
           /\ Author' = Some(call'.author)
        \/ /\ Author' = None
           /\ call'.op \in {"on_initialize", "roll_to", "initialize_block"}]_vars

\* the slot is set and the query has just read it
C2_Witness ==
    /\ Author # None /\ pre.Author = Author
    /\ call.op = "find_author" /\ pre.claimsInRound = 1

\* C3: the first set_author from the none origin in a round, for an author
\* the final policy accepts, returns Ok, leaves the slot and find_author at
\* Some(author), appends to the log exactly one Consensus record with engine
\* id "auth" whose payload is the eight-byte encoding of the author, and
\* notifies the sink exactly once, with that author.
C3_FirstClaimSucceeds ==
    (PrivilegedClaim /\ pre.claimsInRound = 0 /\ call.full)
        => /\ result = ROk
           /\ Author = Some(call.author)
           /\ find_author(Store, <<>>).result = RSome(call.author)
           /\ Len(Digest) = Len(pre.Digest) + 1
           /\ SubSeq(Digest, 1, Len(pre.Digest)) = pre.Digest
           /\ Digest[Len(Digest)].kind = "Consensus"
           /\ Digest[Len(Digest)].engine = <<97, 117, 116, 104>>
           /\ Len(Digest[Len(Digest)].data) = 8
           /\ Decode(Digest[Len(Digest)].data) = [ok |-> TRUE, val |-> call.author]
           /\ Len(noted) = Len(pre.noted) + 1
           /\ SubSeq(noted, 1, Len(pre.noted)) = pre.noted
           /\ noted[Len(noted)].author = call.author

\* a first claim in a round that on_initialize opened, while the preliminary
\* policy rejects the author
C3_Witness ==
    /\ PrivilegedClaim /\ pre.claimsInRound = 0 /\ pre.everReset
    /\ call.full /\ ~call.prelim /\ call.author = 2
    /\ result = ROk /\ Author = Some(2)

\* C4: set_author from any origin other than none returns BadOrigin (the
\* origin error), whatever the author, the policies' answers and the slot,
\* and leaves the slot, the log and the sink as they were.
C4_BadOrigin ==
    (call.op = "set_author" /\ call.origin # "None")
        => (result = RErr("BadOrigin") /\ NothingWritten)

\* a signed claim of an admissible author on an empty slot
C4_Witness ==
    /\ call.op = "set_author" /\ call.origin = "Signed"
    /\ call.full /\ pre.Author = None /\ Author = None
    /\ result = RErr("BadOrigin")

\* a root claim on a slot that is already set
C4_WitnessRootOccupied ==
    /\ call.op = "set_author" /\ call.origin = "Root"
    /\ pre.Author # None /\ ~call.full
    /\ result = RErr("BadOrigin")

\* C5: set_author from the none origin on an empty slot, for an author the
\* final policy rejects, returns CannotBeAuthor and leaves the slot None
\* (and the log and the sink as they were).
C5_CannotBeAuthor ==
    (PrivilegedClaim /\ pre.Author = None /\ ~call.full)
        => (result = RErr("CannotBeAuthor") /\ Author = None /\ NothingWritten)

\* a rejected claim of an author the preliminary policy accepts
C5_Witness ==
    /\ PrivilegedClaim /\ pre.Author = None /\ ~call.full /\ call.prelim
    /\ result = RErr("CannotBeAuthor") /\ Author = None

\* C6: in a round that follows a round with a successful claim (the slot held
\* an author when on_initialize ran), the slot is None after the reset; the
\* round's first set_author from the none origin, for an author the final
\* policy accepts (the previous round's author included), returns Ok and the
\* query then returns that author; every further set_author from the none
\* origin in that round returns AuthorAlreadySet.  Checked for every number
\* of rounds up to the bounds.
C6_NextRoundClaims ==
    /\ (call.op \in {"on_initialize", "roll_to", "initialize_block"}
            /\ lastRoundAuthor # None
            /\ claimsInRound = 0)
        => Author = None
    /\ (PrivilegedClaim /\ pre.lastRoundAuthor # None /\ pre.claimsInRound = 0
            /\ call.full)
        => /\ result = ROk
           /\ Author = Some(call.author)
           /\ \A d \in DigestInputs : find_author(Store, d).result = RSome(call.author)
    /\ (call.op = "find_author" /\ pre.lastRoundAuthor # None
            /\ pre.claimsInRound >= 1)
        => (result.kind = "Some" /\ Some(result.author) = Author)
    /\ (PrivilegedClaim /\ pre.lastRoundAuthor # None /\ pre.claimsInRound >= 1)
        => result = RErr("AuthorAlreadySet")

\* the second block claims the author the first block claimed
C6_Witness ==
    /\ PrivilegedClaim /\ pre.lastRoundAuthor = Some(1) /\ call.author = 1
    /\ pre.claimsInRound = 0 /\ block_number = MaxBlocks
    /\ result = ROk /\ Author = Some(1) /\ Len(noted) = 2

\* a second claim, of another author, in the second round
C6_WitnessSecond ==
    /\ PrivilegedClaim /\ pre.lastRoundAuthor = Some(1) /\ pre.Author = Some(1)
    /\ call.author = 2 /\ call.full /\ pre.claimsInRound = 1
    /\ result = RErr("AuthorAlreadySet")

\* C7: after on_initialize has run and before a set_author has returned Ok,
\* the slot is None and find_author returns None for every input, whatever
\* the slot held when on_initialize ran; failed claims and check_inherent in
\* between leave it so.
C7_NoneAfterReset ==
    /\ (everReset /\ claimsInRound = 0)
        => /\ Author = None
           /\ \A d \in DigestInputs : find_author(Store, d).result = RNone
    /\ (call.op = "find_author" /\ pre.everReset /\ pre.claimsInRound = 0)
        => result = RNone

\* a claim has failed in a round whose reset cleared a set slot
C7_Witness ==
    /\ everReset /\ claimsInRound = 0 /\ lastRoundAuthor # None
    /\ PrivilegedClaim /\ result = RErr("CannotBeAuthor") /\ Author = None

\* the query runs in a round whose reset cleared a set slot
C7_WitnessQuery ==
    /\ pre.everReset /\ pre.claimsInRound = 0 /\ lastRoundAuthor # None
    /\ call.op = "find_author" /\ result = RNone

\* the writes a successful set_author makes, in the order the code makes them
ClaimWrites == <<"put", "deposit_log", "note_author">>

\* C8: a set_author that returns an error makes no write; one that returns Ok
\* writes the slot, then appends the record to the log, then calls
\* note_author, each once; so whenever note_author ran the slot held the
\* author and the log ended with the author's record, and the sink has one
\* more notification after a successful claim and as many as before after a
\* failed one.
C8_EffectOrder ==
    /\ call.op = "set_author"
        => /\ effects = IF result = ROk THEN ClaimWrites ELSE <<>>
           /\ Len(noted) = Len(pre.noted) + (IF result = ROk THEN 1 ELSE 0)
    /\ \A i \in DOMAIN noted :
           /\ noted[i].slot = Some(noted[i].author)
           /\ noted[i].log # <<>>
           /\ noted[i].log[Len(noted[i].log)]
                 = Consensus(ENGINE_ID, Encode(noted[i].author))

\* a claim has just succeeded on a log that already held a record
C8_Witness ==
    /\ PrivilegedClaim /\ result = ROk /\ effects = ClaimWrites
    /\ Len(noted) = 2 /\ Len(noted[2].log) = 2 /\ noted[2].slot = Some(2)

\* C9: every set_author either returns Ok with the slot set to the author,
\* one record appended to the log and one notification added to the sink, or
\* returns BadOrigin, AuthorAlreadySet or CannotBeAuthor with the slot, the
\* log and the sink's notifications as they were.
C9_AllOrNothing ==
    call.op = "set_author"
        => \/ /\ result = ROk
              /\ Author = Some(call.author)
              /\ Digest = Append(pre.Digest, Consensus(ENGINE_ID, Encode(call.author)))
              /\ Len(noted) = Len(pre.noted) + 1
              /\ SubSeq(noted, 1, Len(pre.noted)) = pre.noted
              /\ noted[Len(noted)].author = call.author
           \/ /\ result \in {RErr("BadOrigin"), RErr("AuthorAlreadySet"),
                               RErr("CannotBeAuthor")}
              /\ NothingWritten

\* a claim fails on a log and a sink that are not empty
C9_Witness ==
    /\ PrivilegedClaim /\ result = RErr("CannotBeAuthor")
    /\ Digest # <<>> /\ noted # <<>> /\ NothingWritten

\* a claim succeeds
C9_WitnessOk ==
    /\ PrivilegedClaim /\ result = ROk /\ pre.Author = None /\ Author # None

\* the payloads data holds under "author__"
AuthorPayloads(data) == {e[2] : e \in {x \in data : x[1] = INHERENT_IDENTIFIER}}

\* C10 as stated: create_inherent fails fatally when the bag holds no payload
\* under "author__" and when the payload is not an encoded AuthorId, and
\* returns a set_author call only for a well-formed payload; it never returns
\* 'no call'.
C10_AbsentIsFatal ==
    call.op = "create_inherent"
        => /\ result.kind \in {"Panic", "Some"}
           /\ (AuthorPayloads(call.data) = {}) => result.kind = "Panic"
           /\ (\E b \in AuthorPayloads(call.data) : Len(b) < 8) => result.kind = "Panic"
           /\ result.kind = "Some" => \E b \in AuthorPayloads(call.data) : Len(b) >= 8

\* C10, amended: create_inherent panics when the payload under "author__" is
\* not an encoded AuthorId (fewer than eight bytes); when the bag holds no
\* payload under "author__" it returns None (no call) without failing; it
\* returns Some(set_author(a)) only when a well-formed payload is present,
\* with a the author the payload's first eight bytes encode.
C10_UndecodableIsFatal ==
    call.op = "create_inherent"
        => /\ (AuthorPayloads(call.data) = {}) => result = RNone
           /\ (\E b \in AuthorPayloads(call.data) : Len(b) < 8) => result.kind = "Panic"
           /\ result.kind = "Some" =>
                 \E b \in AuthorPayloads(call.data) :
                     Len(b) >= 8 /\ FromLE(SubSeq(b, 1, 8)) = result.author
           /\ (\E b \in AuthorPayloads(call.data) : Len(b) >= 8) => result.kind = "Some"

\* create_inherent has run on a bag with another inherent and no author
C10_Witness ==
    /\ call.op = "create_inherent" /\ AuthorPayloads(call.data) = {}
    /\ call.data # {} /\ result = RNone

\* create_inherent has panicked on a payload one byte short
C10_WitnessPanic ==
    /\ call.op = "create_inherent" /\ result.kind = "Panic"
    /\ \E b \in AuthorPayloads(call.data) : Len(b) = 7

\* create_inherent has returned the call for author 2
C10_WitnessSome ==
    /\ call.op = "create_inherent" /\ result = RSome(2)
    /\ AuthorPayloads(call.data) = {<<2, 0, 0, 0, 0, 0, 0, 0>>}

\* C11: check_inherent on set_author(a) returns the error "Cannot Be Author"
\* exactly when the preliminary policy rejects a and Ok otherwise, whatever
\* the final policy answers, whatever the inherent data holds and whatever
\* the slot holds, and it leaves the slot, the log and the sink as they were.
C11_PreliminaryCheck ==
    call.op = "check_inherent"
        => /\ call.prelim => result = ROk
           /\ ~call.prelim => result = RErr("Cannot Be Author")
           /\ \A f \in BOOLEAN, d \in InherentBags :
                 check_inherent(call.author, d, f, call.prelim) = result
           /\ NothingWritten

\* the preliminary policy rejects an author the final policy accepts, on a
\* set slot and a bag that holds an author
C11_Witness ==
    /\ call.op = "check_inherent" /\ ~call.prelim /\ call.full
    /\ Author # None /\ call.data # NoData
    /\ result = RErr("Cannot Be Author")

\* the preliminary policy accepts an author the final policy rejects
C11_WitnessOk ==
    /\ call.op = "check_inherent" /\ call.prelim /\ ~call.full /\ result = ROk

\* C12: find_author returns the slot's value whatever digests it is given:
\* in every state any two inputs give the same result, the value of the
\* slot, and the call leaves the slot, the log and the sink as they were.
C12_QueryIgnoresInput ==
    /\ \A d1 \in DigestInputs, d2 \in DigestInputs :
           /\ find_author(Store, d1).result = find_author(Store, d2).result
           /\ find_author(Store, d1).result = ROption(Author)
           /\ find_author(Store, d1).st = Store
    /\ call.op = "find_author"
        => (result = ROption(pre.Author) /\ NothingWritten)

\* the query was handed the record of author 2 while the slot holds author 1
C12_Witness ==
    /\ call.op = "find_author" /\ Author = Some(1)
    /\ call.digests = << <<ENGINE_ID, <<2, 0, 0, 0, 0, 0, 0, 0>> >> >>
    /\ result = RSome(1)

\* C13: is_inherent_required returns Ok(Some(error)), with the error
\* "AuthorInherentRequired" that is_fatal_error holds of, for every inherent
\* bag and in every state: for the empty bag, for a bag that holds an author
\* payload, and while the slot is set; it never answers that the inherent is
\* optional.
C13_AlwaysRequired ==
    /\ \A d \in InherentBags :
           /\ is_inherent_required(d) = ROkSomeErr("AuthorInherentRequired")
           /\ is_fatal_error(Other(is_inherent_required(d).err))
    /\ call.op = "is_inherent_required"
        => (result = ROkSomeErr("AuthorInherentRequired") /\ NothingWritten)

\* asked about the empty bag while the slot is set
C13_Witness ==
    /\ call.op = "is_inherent_required" /\ call.data = NoData /\ Author # None
    /\ result.kind = "OkSomeErr"

\* asked about a bag that already holds an author payload
C13_WitnessPresent ==
    /\ call.op = "is_inherent_required" /\ result.kind = "OkSomeErr"
    /\ \E e \in call.data : e[1] = INHERENT_IDENTIFIER

\* C14: from every state, on_initialize run twice leaves the slot, the log
\* and the sink as on_initialize run once leaves them: the slot None, the log
\* and the sink's notifications as before the first run; the only write of
\* on_initialize is the kill of the slot.
C14_ResetIdempotent ==
    /\ LET s1 == on_initialize(Store)
           s2 == on_initialize(s1)
       IN  /\ s1.Author = None /\ s1.Digest = Digest /\ s1.noted = noted
           /\ s2.Author = s1.Author /\ s2.Digest = s1.Digest /\ s2.noted = s1.noted
    /\ call.op = "on_initialize"
        => /\ Author = None /\ Digest = pre.Digest /\ noted = pre.noted
           /\ effects = <<"kill">>

\* on_initialize has run on a slot an earlier on_initialize had cleared, with
\* a record in the log
C14_Witness ==
    /\ call.op = "on_initialize" /\ pre.everReset /\ pre.claimsInRound = 0
    /\ pre.Author = None /\ Author = None /\ Digest # <<>>

\* C15: is_fatal_error holds of every InherentError, and so of every error
\* the adapter returns: the one is_inherent_required returns and the one
\* check_inherent returns; create_inherent returns no InherentError.
C15_EveryErrorFatal ==
    /\ \A msg \in ErrorMessages : is_fatal_error(Other(msg))
    /\ call.op = "is_fatal_error" => result.kind = "True"
    /\ (call.op \in {"is_inherent_required", "check_inherent"}
            /\ result.kind \in {"Err", "OkSomeErr"})
        => is_fatal_error(Other(result.err))
    /\ call.op = "create_inherent" => result.kind \in {"Some", "None", "Panic"}

\* check_inherent has returned its error
C15_Witness ==
    /\ call.op = "check_inherent" /\ result = RErr("Cannot Be Author")
    /\ is_fatal_error(Other(result.err))

\* is_fatal_error has been asked about an error the pallet never builds
C15_WitnessUnknown ==
    /\ call.op = "is_fatal_error" /\ result = RBool(TRUE, "unknown")

\* C16: set_author checks the origin, then the slot, then the final policy,
\* and the first check that fails gives the error: BadOrigin for an origin
\* other than none, whatever the slot and the policy; AuthorAlreadySet for
\* the none origin on a set slot, whatever the policy; CannotBeAuthor only
\* for the none origin on an empty slot.  When an earlier check fails the
\* outcome is the same for both answers of the final policy.
C16_CheckOrder ==
    /\ call.op = "set_author"
        => /\ result = IF call.origin # "None" THEN RErr("BadOrigin")
                       ELSE IF pre.Author # None THEN RErr("AuthorAlreadySet")
                       ELSE IF ~call.full THEN RErr("CannotBeAuthor")
                       ELSE ROk
           /\ result = RErr("CannotBeAuthor")
                 => (call.origin = "None" /\ pre.Author = None)
    /\ \A o \in RawOrigin, a \in AuthorId, p \in BOOLEAN :
           (o # "None" \/ Author # None)
               => set_author(Store, o, a, TRUE, p) = set_author(Store, o, a, FALSE, p)

\* a claim of a rejected author from the none origin on a set slot
C16_Witness ==
    /\ PrivilegedClaim /\ pre.Author # None /\ ~call.full
    /\ result = RErr("AuthorAlreadySet")

\* a signed claim of a rejected author on a set slot
C16_WitnessOrigin ==
    /\ call.op = "set_author" /\ call.origin = "Signed"
    /\ pre.Author # None /\ ~call.full /\ result = RErr("BadOrigin")

\* C17: whenever the slot holds an author, the final policy accepted that
\* author when the slot was filled, whatever the preliminary policy answered;
\* a set_author for an author the final policy rejects and the preliminary
\* policy accepts never returns Ok and never writes the slot; and a
\* set_author from the none origin on an empty slot for an author the
\* preliminary policy rejects and the final policy accepts returns Ok and
\* fills the slot.
C17_FinalPolicyDecides ==
    /\ Author # None => (admitted # None /\ admitted[1])
    /\ (call.op = "set_author" /\ ~call.full /\ call.prelim)
        => (result # ROk /\ Author = pre.Author)
    /\ (PrivilegedClaim /\ pre.Author = None /\ call.full /\ ~call.prelim)
        => (result = ROk /\ Author = Some(call.author))

\* the slot holds an author the preliminary policy rejected
C17_Witness ==
    /\ Author # None /\ admitted = <<TRUE, FALSE>>

\* a claim the preliminary policy accepts and the final one rejects has failed
C17_WitnessRejected ==
    /\ PrivilegedClaim /\ pre.Author = None /\ ~call.full /\ call.prelim
    /\ result = RErr("CannotBeAuthor") /\ Author = None

(***************************************************************************)
(* C18.                                                                    *)
(***************************************************************************)
\* the records of the round's log that are tagged "auth"
AuthRecords ==
    {i \in DOMAIN Digest : Digest[i].kind = "Consensus" /\ Digest[i].engine = ENGINE_ID}

\* C18: in a round that began with a reset of both the slot and the log, the
\* slot is Some(a) exactly when the log holds exactly one "auth" record whose
\* payload is the encoding of a, the slot is None exactly when the log holds no
\* such record, and the notifications of the round are as many as the records,
\* 0 or 1.
C18_SlotAndLogAgree ==
    roundBase # None =>
        /\ Cardinality(AuthRecords) \in {0, 1}
        /\ (Author = None) <=> (AuthRecords = {})
        /\ \A a \in AuthorId :
               (Author = Some(a)) <=>
                   /\ Cardinality(AuthRecords) = 1
                   /\ \A i \in AuthRecords : Digest[i].data = Encode(a)
        /\ Len(noted) - roundBase[1] = Cardinality(AuthRecords)

\* a second round, begun with both resets, in which author 2 has claimed
C18_Witness ==
    /\ roundBase = Some(1)
    /\ Author = Some(2)
    /\ Len(noted) = 2
    /\ Len(Digest) = 1
    /\ call.op = "set_author"
    /\ result = ROk

\* the same round before any claim succeeded, after a refused one
C18_WitnessNone ==
    /\ roundBase = Some(1)
    /\ Author = None
    /\ Digest = <<>>
    /\ call.op = "set_author"
    /\ result = RErr("CannotBeAuthor")

(***************************************************************************)
(* C19.                                                                    *)
(***************************************************************************)
\* C19: for every author a, a provider InherentDataProvider(a) handed a bag
\* with no author in it succeeds, the bag it leaves holds a under "author__",
\* create_inherent on that bag returns Some(set_author(a)), is_inherent holds
\* for that call, and check_inherent on it is Ok exactly when the preliminary
\* policy accepts a, whatever the final policy answers.
C19_RoundTrip ==
    call.op = "provide_inherent_data" =>
        /\ (\A e \in call.data : e[1] # INHERENT_IDENTIFIER) => result = ROk
        /\ result = ROk =>
            /\ call.data \subseteq inherent_data
            /\ AuthorPayloads(inherent_data) = {Encode(call.author)}
            /\ get_data(inherent_data, INHERENT_IDENTIFIER)
                   = [kind |-> "Some", val |-> call.author]
            /\ create_inherent(inherent_data) = RSome(call.author)
            /\ is_inherent(create_inherent(inherent_data).author) = RTrue
            /\ \A full \in BOOLEAN, prelim \in BOOLEAN :
                   check_inherent(create_inherent(inherent_data).author,
                                  inherent_data, full, prelim)
                       = IF prelim THEN ROk ELSE RErr("Cannot Be Author")

\* author 2 provided into a bag that held another inherent's entry
C19_Witness ==
    /\ call.op = "provide_inherent_data"
    /\ call.author = 2
    /\ call.data = {<<OTHER_IDENTIFIER, <<42>> >>}
    /\ result = ROk
    /\ inherent_data = {<<OTHER_IDENTIFIER, <<42>> >>, <<INHERENT_IDENTIFIER, Encode(2)>>}

\* the runtime creating the inherent from the bag the provider left
C19_WitnessCreated ==
    /\ call.op = "create_inherent"
    /\ call.data = inherent_data
    /\ result = RSome(1)

(***************************************************************************)
(* C20.                                                                    *)
(***************************************************************************)
\* C20: starting a round without on_initialize leaves the slot as it was; in
\* such a round that inherited an author the slot still holds that author,
\* find_author returns it, and every set_author from the none origin returns
\* AuthorAlreadySet, without a panic and without writing.  Before any
\* on_initialize and any successful claim the slot is None, and a set_author
\* from the none origin that the final policy accepts then succeeds.
C20_NoImplicitReset ==
    /\ call.op = "initialize_block_no_hook" => Author = pre.Author
    /\ leaked # None =>
        /\ Author = leaked
        /\ call.op = "find_author" => result = ROption(leaked)
        /\ PrivilegedClaim => result = RErr("AuthorAlreadySet") /\ NothingWritten
    /\ (~everReset /\ claimsInRound = 0) => Author = None
    /\ (PrivilegedClaim /\ ~pre.everReset /\ pre.claimsInRound = 0 /\ call.full) =>
           result = ROk /\ Author = Some(call.author)

\* a claim of another, admissible author refused in a round that inherited
\* author 1
C20_Witness ==
    /\ leaked = Some(1)
    /\ PrivilegedClaim
    /\ call.author = 2
    /\ call.full
    /\ result = RErr("AuthorAlreadySet")
    /\ Len(Digest) = 0

\* the query in such a round
C20_WitnessQuery ==
    /\ leaked = Some(2)
    /\ call.op = "find_author"
    /\ result = RSome(2)

\* the first claim of all, before any reset has run
C20_WitnessInitial ==
    /\ PrivilegedClaim
    /\ ~pre.everReset
    /\ pre.claimsInRound = 0
    /\ pre.block_number = 0
    /\ result = ROk

====
